---- MODULE Spec2Model ----
(***************************************************************************)
(* Model of ibm_appconfiguration: ConfigurationHandler (rule evaluation,   *)
(* metering hand-off, pull / push synchronisation, cache reload) and the   *)
(* AppConfiguration facade's load trigger.                                 *)
(***************************************************************************)
EXTENDS Integers, Sequences, FiniteSets, TLC

VARIABLES
    \* ---- one evaluation call (feature_evaluation / property_evaluation)
    kind,               \* "feature" or "property": which method is called
    feature,            \* the Feature object handed to feature_evaluation
    property_obj,       \* the Property object handed to property_evaluation
    entity_attributes,  \* [is_none, items]: None, or a dict as a set of <<name, value>>
    metering_fails,     \* whether Metering.add_metering raises on this call
    eval_pc,            \* "call" before the evaluation, "done" after it
    result,             \* what the caller gets: [raised, value, evaluated_segment_id, trace, parsed]
    metering,           \* the records handed to Metering.add_metering, in order
    \* ---- ConfigurationHandler
    feature_map,        \* self.__feature_map
    property_map,       \* self.__property_map
    segment_map,        \* self.__segment_map
    is_initialized,     \* self.__is_initialized
    live_config_update_enabled,     \* self.__live_config_update_enabled
    configuration_update_listener,  \* whether a listener is registered
    config_file,        \* whether self.__config_file names a file
    retry_count,        \* self.__retry_count
    on_socket_retry,    \* self.__on_socket_retry
    socket,             \* self.__socket: "None", or the state of the Socket it holds
    connectivity,       \* whether self.__connectivity holds the Connectivity instance
    is_network_connected,   \* self.__is_network_connected
    \* ---- collaborators and environment
    stored_file,        \* the snapshot FileManager persists (store_files / read_files)
    remote,             \* the snapshot the service answers a GET with
    is_loading,         \* AppConfiguration.__is_loading
    app_initialized,    \* AppConfiguration.__is_initialized
    load_threads,       \* started threads that have not yet entered __load_data_now
    socket_threads,     \* started threads that have not yet entered __start_web_socket
    socket_timers,      \* pending Timer(retry_interval, __start_web_socket)
    socket_starts,      \* __start_web_socket calls between dropping the old handle
                        \* and assigning the new Socket
    stray_sockets,      \* Sockets set up, not cancelled, no longer held by self.__socket
    network_listener_added,     \* __network_listener is registered at Connectivity
    fetch_timers,       \* pending Timer(retry_interval, __fetch_from_api)
    th,                 \* per thread: program position, call stack and locals
    \* ---- history
    events,             \* environment events so far: application calls, answers
                        \* to GET requests, push messages, socket errors and closes,
                        \* changes of the remote snapshot, connectivity notifications
    messages,           \* push messages delivered to the socket callback
    message_pulls,      \* pulls begun by the message branch of the callback
    exhausted,          \* attempts made by the pulls that ended scheduling a delayed retry
    lookup,             \* the application's last get_feature / get_property call
    dropped,            \* a 2xx answer to a request sent with live updates enabled
                        \* was not written because they were disabled meanwhile
    cycle_ran_disabled, \* load_data ran with live updates disabled, and they still are
    reconnections,      \* 'online' notifications received while recorded offline
    network_pulls,      \* pulls begun by __network_listener
    stable,             \* the environment has settled: the remote snapshot no longer
                        \* changes, the network stays online, every GET is answered 2xx
    failure,            \* the event that ended the push connection since it last
                        \* opened: "none", "error" or "closed"
    last_pull           \* how the pull that ended last ended: "none" (no pull has
                        \* ended), "2xx", "retry" (a delayed retry was scheduled)
                        \* or "raised"

evalVars == <<kind, feature, property_obj, entity_attributes, metering_fails,
              eval_pc, result, metering>>
cacheVars == <<feature_map, property_map, segment_map>>
handlerVars == <<is_initialized, live_config_update_enabled, configuration_update_listener,
                 config_file, retry_count, on_socket_retry, socket, connectivity,
                 is_network_connected>>
envVars == <<stored_file, remote, is_loading, app_initialized, load_threads,
             socket_threads, socket_timers, socket_starts, stray_sockets,
             network_listener_added, fetch_timers, th>>
historyVars == <<events, messages, message_pulls, exhausted, lookup, dropped,
                 cycle_ran_disabled, reconnections, network_pulls, stable,
                 failure, last_pull>>
syncVars == <<handlerVars, envVars, historyVars>>
vars == <<evalVars, cacheVars, syncVars>>

(***************************************************************************)
(* Bounds of the evaluation inputs.                                        *)
(***************************************************************************)
MaxRules == 2      \* longest segment_rules list
MaxOrder == 3      \* largest `order` of a segment rule

(***************************************************************************)
(* Bounds of the synchronisation runs.                                     *)
(***************************************************************************)
MaxEvents == 5     \* environment events in one run
MaxEntries == 2    \* longest list of entries in a document of the reload runs

\* self.__retry_count = 3
RetryCount == 3

(***************************************************************************)
(* Values.                                                                 *)
(***************************************************************************)
DEFAULT_SEGMENT_ID == "$$null$$"
DefaultRuleValue == "$default"
NoValue == "None"

\* A dict as a function; MapPut is d[k] = v.
EmptyMap == [x \in {} |-> x]
MapPut(m, k, v) == [x \in (DOMAIN m) \cup {k} |-> IF x = k THEN v ELSE m[x]]

(***************************************************************************)
(* Segments: Segment.evaluate_rule(entity_attributes).  A segment holds    *)
(* one predicate "attribute_name is one of values".                        *)
(***************************************************************************)
SegmentS1 == [id |-> "s1", ok |-> TRUE, attribute_name |-> "plan", values |-> {"gold"}]
SegmentS2 == [id |-> "s2", ok |-> TRUE, attribute_name |-> "plan",
              values |-> {"gold", "silver"}]
LoadedSegments == MapPut(MapPut(EmptyMap, "s1", SegmentS1), "s2", SegmentS2)

evaluate_rule(segment, attrs) ==
    \E a \in attrs.items : a[1] = segment.attribute_name /\ a[2] \in segment.values

\* __evaluate_segment: an id missing from the segment map is a non-match.
evaluate_segment(segment_key, attrs, smap) ==
    IF segment_key \in DOMAIN smap
    THEN evaluate_rule(smap[segment_key], attrs)
    ELSE FALSE

(***************************************************************************)
(* __parse_rules: a dict keyed by order; a rule whose SegmentRules(...)    *)
(* constructor raises is skipped; a later rule with the same order         *)
(* replaces the earlier one.                                               *)
(***************************************************************************)
SegmentRulesParses(rules) == rules.ok

RECURSIVE parse_rules_from(_, _)
parse_rules_from(segment_rules, n) ==
    IF n = 0 THEN EmptyMap
    ELSE LET rule_map == parse_rules_from(segment_rules, n - 1)
             rules == segment_rules[n]
         IN  IF SegmentRulesParses(rules)
             THEN MapPut(rule_map, rules.order, rules)
             ELSE rule_map

parse_rules(segment_rules) == parse_rules_from(segment_rules, Len(segment_rules))

(***************************************************************************)
(* __evaluate_rules.  trace is the sequence of segment keys handed to      *)
(* __evaluate_segment, in order.                                           *)
(***************************************************************************)
NoHit == [hit |-> FALSE, key |-> DEFAULT_SEGMENT_ID, trace |-> << >>]

\* for _, segment_key in enumerate(segments): ...
RECURSIVE eval_segments(_, _, _, _)
eval_segments(segments, k, attrs, smap) ==
    IF k > Len(segments) THEN NoHit
    ELSE IF evaluate_segment(segments[k], attrs, smap)
         THEN [hit |-> TRUE, key |-> segments[k], trace |-> <<segments[k]>>]
         ELSE LET r == eval_segments(segments, k + 1, attrs, smap)
              IN  [r EXCEPT !.trace = <<segments[k]>> \o @]

\* One rule-level inside its try/except: a level without 'segments' raises
\* in enumerate(None), which is caught and logged.
eval_level(rule, attrs, smap) ==
    IF rule.has_segments
    THEN eval_segments(rule.segments, 1, attrs, smap)
    ELSE NoHit

\* for level in range(0, len(segment_rule.get_rules())): ...
RECURSIVE eval_levels(_, _, _, _)
eval_levels(levels, level, attrs, smap) ==
    IF level > Len(levels) THEN NoHit
    ELSE LET h == eval_level(levels[level], attrs, smap)
         IN  IF h.hit THEN h
             ELSE LET r == eval_levels(levels, level + 1, attrs, smap)
                  IN  [r EXCEPT !.trace = h.trace \o @]

\* The value of a matching rule: "$default" stands for the default value.
rule_value(segment_rule, default_value) ==
    IF segment_rule.value = DefaultRuleValue THEN default_value ELSE segment_rule.value

\* for i in range(1, len(rules_map) + 1): segment_rule = rules_map[i] ...
\* rules_map[i] on a missing key raises KeyError outside every try.
RECURSIVE evaluate_rules_from(_, _, _, _, _)
evaluate_rules_from(rules_map, i, attrs, smap, default_value) ==
    IF i > Cardinality(DOMAIN rules_map)
    THEN [raised |-> FALSE, value |-> default_value,
          evaluated_segment_id |-> DEFAULT_SEGMENT_ID, trace |-> << >>]
    ELSE IF i \notin DOMAIN rules_map
    THEN [raised |-> TRUE, value |-> NoValue,
          evaluated_segment_id |-> DEFAULT_SEGMENT_ID, trace |-> << >>]
    ELSE LET segment_rule == rules_map[i]
             h == eval_levels(segment_rule.rules, 1, attrs, smap)
         IN  IF h.hit
             THEN [raised |-> FALSE, value |-> rule_value(segment_rule, default_value),
                   evaluated_segment_id |-> h.key, trace |-> h.trace]
             ELSE LET r == evaluate_rules_from(rules_map, i + 1, attrs, smap, default_value)
                  IN  [r EXCEPT !.trace = h.trace \o @]

evaluate_rules(rules_map, attrs, smap, default_value) ==
    evaluate_rules_from(rules_map, 1, attrs, smap, default_value)

(***************************************************************************)
(* The try bodies of feature_evaluation and property_evaluation.  parsed   *)
(* tells whether __parse_rules / __evaluate_rules were entered.  A raise   *)
(* of __evaluate_rules leaves the method's own result_dict untouched.      *)
(***************************************************************************)
Returned(v) == [raised |-> FALSE, value |-> v,
                evaluated_segment_id |-> DEFAULT_SEGMENT_ID,
                trace |-> << >>, parsed |-> FALSE]

\* entity_attributes is None or len(entity_attributes) <= 0
NoAttributesOnlyNone(attrs) == attrs.is_none
no_attributes(attrs) == attrs.is_none \/ Cardinality(attrs.items) <= 0

rules_result(segment_rules, attrs, smap, default_value) ==
    LET r == evaluate_rules(parse_rules(segment_rules), attrs, smap, default_value)
    IN  [raised |-> r.raised, value |-> r.value,
         evaluated_segment_id |-> r.evaluated_segment_id,
         trace |-> r.trace, parsed |-> TRUE]

FeatureTryIgnoringEnabled(f, attrs, smap) ==
    IF no_attributes(attrs) THEN Returned(f.enabled_value)
    ELSE IF Len(f.segment_rules) > 0
         THEN rules_result(f.segment_rules, attrs, smap, f.enabled_value)
         ELSE Returned(f.enabled_value)
feature_try(f, attrs, smap) ==
    IF f.enabled
    THEN IF no_attributes(attrs) THEN Returned(f.enabled_value)
         ELSE IF Len(f.segment_rules) > 0
              THEN rules_result(f.segment_rules, attrs, smap, f.enabled_value)
              ELSE Returned(f.enabled_value)
    ELSE Returned(f.disabled_value)

property_try(p, attrs, smap) ==
    IF no_attributes(attrs) THEN Returned(p.value)
    ELSE IF Len(p.segment_rules) > 0
         THEN rules_result(p.segment_rules, attrs, smap, p.value)
         ELSE Returned(p.value)

(***************************************************************************)
(* The finally blocks: record_valuation -> Metering.add_metering, called   *)
(* whether the try body returned or raised.  An exception of the call      *)
(* leaves the finally block and replaces the pending return.               *)
(***************************************************************************)
MeteringRecord(property_id, feature_id, segment_id) ==
    [property_id |-> property_id, feature_id |-> feature_id,
     entity_id |-> "e1", segment_id |-> segment_id]

RecordOnlyOnReturn(log, body, rec) == IF body.raised THEN log ELSE Append(log, rec)
record_valuation(log, body, rec) == Append(log, rec)

after_finally(body, fails) ==
    IF fails
    THEN [body EXCEPT !.raised = TRUE, !.value = NoValue]
    ELSE body

feature_evaluation ==
    /\ eval_pc = "call"
    /\ kind = "feature"
    /\ LET body == feature_try(feature, entity_attributes, segment_map)
           rec == MeteringRecord(NoValue, feature.feature_id, body.evaluated_segment_id)
       IN  /\ metering' = record_valuation(metering, body, rec)
           /\ result' = after_finally(body, metering_fails)
    /\ eval_pc' = "done"
    /\ UNCHANGED <<kind, feature, property_obj, entity_attributes, metering_fails>>
    /\ UNCHANGED <<cacheVars, syncVars>>

property_evaluation ==
    /\ eval_pc = "call"
    /\ kind = "property"
    /\ LET body == property_try(property_obj, entity_attributes, segment_map)
           rec == MeteringRecord(property_obj.property_id, NoValue, body.evaluated_segment_id)
       IN  /\ metering' = record_valuation(metering, body, rec)
           /\ result' = after_finally(body, metering_fails)
    /\ eval_pc' = "done"
    /\ UNCHANGED <<kind, feature, property_obj, entity_attributes, metering_fails>>
    /\ UNCHANGED <<cacheVars, syncVars>>

(***************************************************************************)
(* Inputs of an evaluation.                                                *)
(***************************************************************************)
NoSegments == [has_segments |-> FALSE, segments |-> << >>]
Level(segs) == [has_segments |-> TRUE, segments |-> segs]

\* "sx" is an id that is not in the segment map.
LevelLists ==
    { << Level(<<"s1">>) >>,
      << Level(<<"s2">>) >>,
      << NoSegments, Level(<<"sx", "s2">>) >>,
      << Level(<<"s2">>), Level(<<"s1">>) >> }

UnparsableRule == [ok |-> FALSE, order |-> 0, rules |-> << >>, value |-> DefaultRuleValue]
SegmentRuleSet ==
    [ok : {TRUE}, order : 1..MaxOrder, rules : LevelLists, value : {DefaultRuleValue, "v1"}]
        \cup {UnparsableRule}

RuleLists == UNION { [1..n -> SegmentRuleSet] : n \in 0..MaxRules }

AttributeSets ==
    { [is_none |-> TRUE, items |-> {}],
      [is_none |-> FALSE, items |-> {}],
      [is_none |-> FALSE, items |-> {<<"plan", "gold">>}],
      [is_none |-> FALSE, items |-> {<<"plan", "silver">>}] }

Features ==
    [feature_id : {"f1"}, enabled : BOOLEAN, enabled_value : {"on"},
     disabled_value : {"off"}, segment_rules : RuleLists]

Properties == [property_id : {"p1"}, value : {"base"}, segment_rules : RuleLists]

NoResult == [raised |-> FALSE, value |-> NoValue,
             evaluated_segment_id |-> DEFAULT_SEGMENT_ID,
             trace |-> << >>, parsed |-> FALSE]

\* The cache after a reload that found the segments s1 and s2.
InitCache ==
    /\ feature_map = EmptyMap /\ property_map = EmptyMap
    /\ segment_map = LoadedSegments

InitCall ==
    /\ kind \in {"feature", "property"}
    /\ \E rs \in RuleLists :
         /\ feature \in {f \in Features :
                           /\ f.segment_rules = rs
                           /\ (kind = "property" => f.enabled)}
         /\ property_obj \in {p \in Properties : p.segment_rules = rs}
    /\ entity_attributes \in AttributeSets
    /\ eval_pc = "call"
    /\ result = NoResult
    /\ metering = << >>

(***************************************************************************)
(* Snapshots: a JSON document with the keys 'features', 'properties',      *)
(* 'segments', each a list of entries.  An entry whose constructor         *)
(* (Feature(...), Property(...), Segment(...)) raises has ok = FALSE.      *)
(***************************************************************************)
Categories == <<"features", "properties", "segments">>

FeatureF1 == [id |-> "f1", ok |-> TRUE]
FeatureF2 == [id |-> "f2", ok |-> TRUE]
PropertyP1 == [id |-> "p1", ok |-> TRUE]
PropertyP2 == [id |-> "p2", ok |-> TRUE]

SnapshotA == [features |-> <<FeatureF1>>, properties |-> <<PropertyP1>>,
              segments |-> <<SegmentS1>>]
SnapshotB == [features |-> <<FeatureF2>>, properties |-> <<PropertyP2>>,
              segments |-> <<SegmentS2>>]
\* FileManager.read_files() before anything was stored, an empty body: falsy.
NoSnapshot == EmptyMap
\* The bodies of the service's 2xx answers, and what the configuration file holds.
ResponseBodies == {SnapshotA, SnapshotB, NoSnapshot}
SeedFile == SnapshotA

\* The object built from an entry and the key it is stored under.
EntryParses(entry) == entry.ok
EntryId(entry) == entry.id

\* A feature entry whose constructor raises.
FeatureBad == [id |-> "fx", ok |-> FALSE]

\* Documents with lists of up to MaxEntries entries, malformed ones among
\* them, with empty lists and with missing keys.
EntryLists(entries) == UNION { [1..n -> entries] : n \in 0..MaxEntries }
Present(lists) == { [present |-> TRUE, list |-> l] : l \in lists }
Omitted == [present |-> FALSE, list |-> << >>]
Document(f, p, s) ==
    LET key == [features |-> f, properties |-> p, segments |-> s]
    IN  [k \in { c \in DOMAIN key : key[c].present } |-> key[k].list]
ReloadSnapshots ==
    { Document(f, p, s) :
        f \in Present(EntryLists({FeatureF1, FeatureBad})) \cup {Omitted},
        p \in Present({<< >>, <<PropertyP1>>}) \cup {Omitted},
        s \in Present({<<SegmentS1>>}) \cup {Omitted} }

(***************************************************************************)
(* Threads.  "load" and "load2" run __load_data_now, "sock" the callbacks   *)
(* of the socket, "timer" a delayed __fetch_from_api, "net" the            *)
(* connectivity listener, "app" the application's get_feature /            *)
(* get_property calls.                                                     *)
(***************************************************************************)
Threads == {"load", "load2", "sock", "timer", "net", "app"}
Loaders == {"load", "load2"}

IdleThread == [pc |-> "idle", stack |-> << >>, json |-> NoSnapshot,
               all_config |-> NoSnapshot, cat |-> 0, idx |-> 0, tmp |-> 0,
               attempts |-> 0, trigger |-> "none", sent_live |-> FALSE,
               caught |-> FALSE]

\* return: to the caller's next statement, or the thread ends.
Return(r) ==
    IF r.stack = << >>
    THEN IdleThread
    ELSE [r EXCEPT !.pc = Head(r.stack), !.stack = Tail(r.stack),
                   !.all_config = NoSnapshot, !.cat = 0, !.idx = 0, !.tmp = 0]
\* call `entry`, continuing at `back` when it returns.
Call(r, entry, back) == [r EXCEPT !.pc = entry, !.stack = <<back>> \o @]

\* __fetch_config_data, entered by a thread whose return address is on its
\* stack: if self.__is_initialized: self.__fetch_from_api() ...
fetch_config_data(r) ==
    IF is_initialized THEN Call(r, "F_enter", "C_after") ELSE Return(r)

(***************************************************************************)
(* AppConfiguration (facade) and the application's calls.                  *)
(***************************************************************************)
\* AppConfiguration.init -> ConfigurationHandler.init
init ==
    /\ ~app_initialized
    /\ app_initialized' = TRUE
    /\ is_loading' = FALSE
    /\ feature_map' = EmptyMap /\ property_map' = EmptyMap /\ segment_map' = EmptyMap
    /\ UNCHANGED <<evalVars, is_initialized, live_config_update_enabled,
                   configuration_update_listener, config_file, retry_count,
                   on_socket_retry, socket, stored_file, load_threads, socket_threads,
                   socket_timers, fetch_timers, th, events, messages, message_pulls,
                   exhausted, connectivity, is_network_connected, remote, socket_starts,
                   stray_sockets, network_listener_added, lookup, dropped,
                   cycle_ran_disabled, reconnections, network_pulls, stable, failure,
                   last_pull>>

\* The facade's context call (a live_config_update_enabled of False needs a
\* configuration file): ConfigurationHandler.set_context, then a new thread
\* for __load_data_now.
set_context ==
    /\ app_initialized
    /\ events < MaxEvents
    /\ \E live \in BOOLEAN, file \in BOOLEAN :
         /\ (~live => file)
         /\ live_config_update_enabled' = live
         /\ config_file' = file
         \* __check_network
         /\ connectivity' = live
         /\ network_listener_added' = (network_listener_added \/ (live /\ ~connectivity))
         /\ cycle_ran_disabled' = (cycle_ran_disabled /\ ~live)
    /\ is_initialized' = TRUE
    /\ load_threads' = load_threads + 1
    /\ events' = events + 1
    /\ UNCHANGED <<evalVars, feature_map, property_map, segment_map,
                   configuration_update_listener, retry_count, on_socket_retry, socket,
                   stored_file, is_loading, app_initialized, socket_threads, socket_timers,
                   fetch_timers, th, messages, message_pulls, exhausted,
                   is_network_connected, remote, socket_starts, stray_sockets, lookup,
                   dropped, reconnections, network_pulls, stable, failure, last_pull>>

\* AppConfiguration.fetch_configurations
fetch_configurations ==
    /\ app_initialized /\ is_initialized
    /\ events < MaxEvents
    /\ load_threads' = load_threads + 1
    /\ events' = events + 1
    /\ UNCHANGED <<evalVars, feature_map, property_map, segment_map, is_initialized,
                   live_config_update_enabled, configuration_update_listener, config_file,
                   retry_count, on_socket_retry, socket, stored_file, is_loading,
                   app_initialized, socket_threads, socket_timers, fetch_timers, th,
                   messages, message_pulls, exhausted, connectivity, is_network_connected,
                   remote, socket_starts, stray_sockets, network_listener_added, lookup,
                   dropped, cycle_ran_disabled, reconnections, network_pulls, stable,
                   failure, last_pull>>

\* register_configuration_update_listener with a callable
register_configuration_update_listener ==
    /\ app_initialized /\ is_initialized
    /\ ~configuration_update_listener
    /\ configuration_update_listener' = TRUE
    /\ UNCHANGED <<evalVars, feature_map, property_map, segment_map, is_initialized,
                   live_config_update_enabled, config_file, retry_count, on_socket_retry,
                   socket, stored_file, is_loading, app_initialized, load_threads,
                   socket_threads, socket_timers, fetch_timers, th, events, messages,
                   message_pulls, exhausted, connectivity, is_network_connected, remote,
                   socket_starts, stray_sockets, network_listener_added, lookup, dropped,
                   cycle_ran_disabled, reconnections, network_pulls, stable, failure,
                   last_pull>>

\* The configuration is changed at the service, which tells the open
\* subscription at once: __on_web_socket_callback(message=...).
RemoteChanges ==
    /\ ~stable
    /\ events < MaxEvents
    /\ events' = events + 1
    /\ remote' \in ResponseBodies \ {remote}
    /\ IF socket = "open"
       THEN /\ th["sock"].pc = "idle"
            /\ messages' = messages + 1
            /\ th' = [th EXCEPT !["sock"] =
                        [@ EXCEPT !.pc = "F_enter", !.trigger = "message"]]
       ELSE UNCHANGED <<messages, th>>
    /\ UNCHANGED <<evalVars, feature_map, property_map, segment_map, is_initialized,
                   live_config_update_enabled, configuration_update_listener, config_file,
                   retry_count, on_socket_retry, socket, stored_file, is_loading,
                   app_initialized, load_threads, socket_threads, socket_timers,
                   fetch_timers, message_pulls, exhausted, connectivity,
                   is_network_connected, socket_starts, stray_sockets,
                   network_listener_added, lookup, dropped, cycle_ran_disabled,
                   reconnections, network_pulls, stable, failure, last_pull>>

\* From now on the remote snapshot does not change, the network stays
\* online and every GET is answered 2xx.
Settle ==
    /\ ~stable
    /\ is_initialized /\ live_config_update_enabled /\ is_network_connected
    /\ stable' = TRUE
    /\ UNCHANGED <<evalVars, feature_map, property_map, segment_map, is_initialized,
                   live_config_update_enabled, configuration_update_listener, config_file,
                   retry_count, on_socket_retry, socket, stored_file, is_loading,
                   app_initialized, load_threads, socket_threads, socket_timers,
                   fetch_timers, th, events, messages, message_pulls, exhausted,
                   connectivity, is_network_connected, remote, socket_starts,
                   stray_sockets, network_listener_added, lookup, dropped,
                   cycle_ran_disabled, reconnections, network_pulls, failure, last_pull>>

(***************************************************************************)
(* __load_data_now and load_data, on the threads "load" and "load2".       *)
(***************************************************************************)
\* Threads are interchangeable: a new one takes the first free name.
LoadThreadStarts(t) ==
    /\ t \in Loaders
    /\ th[t].pc = "idle"
    /\ (t = "load2" => th["load"].pc # "idle")
    /\ load_threads > 0
    /\ load_threads' = load_threads - 1
    /\ th' = [th EXCEPT ![t].pc = "N_check"]
    /\ UNCHANGED <<evalVars, feature_map, property_map, segment_map, is_initialized,
                   live_config_update_enabled, configuration_update_listener, config_file,
                   retry_count, on_socket_retry, socket, stored_file, is_loading,
                   app_initialized, socket_threads, socket_timers, fetch_timers, events,
                   messages, message_pulls, exhausted, connectivity, is_network_connected,
                   remote, socket_starts, stray_sockets, network_listener_added, lookup,
                   dropped, cycle_ran_disabled, reconnections, network_pulls, stable,
                   failure, last_pull>>

\* if self.__is_loading: return
load_data_now_check(t) ==
    /\ th[t].pc = "N_check"
    /\ th' = [th EXCEPT ![t] = IF is_loading THEN Return(@) ELSE [@ EXCEPT !.pc = "N_set"]]
    /\ UNCHANGED <<evalVars, feature_map, property_map, segment_map, is_initialized,
                   live_config_update_enabled, configuration_update_listener, config_file,
                   retry_count, on_socket_retry, socket, stored_file, is_loading,
                   app_initialized, load_threads, socket_threads, socket_timers,
                   fetch_timers, events, messages, message_pulls, exhausted, connectivity,
                   is_network_connected, remote, socket_starts, stray_sockets,
                   network_listener_added, lookup, dropped, cycle_ran_disabled,
                   reconnections, network_pulls, stable, failure, last_pull>>

\* self.__is_loading = True; load_data() up to its first call
load_data_now_set(t) ==
    /\ th[t].pc = "N_set"
    /\ is_loading' = TRUE
    /\ th' = [th EXCEPT ![t] =
                IF ~is_initialized THEN [@ EXCEPT !.pc = "N_clear"]
                ELSE IF config_file
                     THEN \* __get_file_data -> __write_to_file(json=data)
                          Call([@ EXCEPT !.json = SeedFile], "W_store", "D_reload")
                     ELSE Call(@, "L_read", "D_live")]
    /\ UNCHANGED <<evalVars, feature_map, property_map, segment_map, is_initialized,
                   live_config_update_enabled, configuration_update_listener, config_file,
                   retry_count, on_socket_retry, socket, stored_file, app_initialized,
                   load_threads, socket_threads, socket_timers, fetch_timers, events,
                   messages, message_pulls, exhausted, connectivity, is_network_connected,
                   remote, socket_starts, stray_sockets, network_listener_added, lookup,
                   dropped, cycle_ran_disabled, reconnections, network_pulls, stable,
                   failure, last_pull>>

\* load_data: self.__load_configurations()
load_data_reload(t) ==
    /\ th[t].pc = "D_reload"
    /\ th' = [th EXCEPT ![t] = Call([@ EXCEPT !.json = NoSnapshot], "L_read", "D_live")]
    /\ UNCHANGED <<evalVars, feature_map, property_map, segment_map, is_initialized,
                   live_config_update_enabled, configuration_update_listener, config_file,
                   retry_count, on_socket_retry, socket, stored_file, is_loading,
                   app_initialized, load_threads, socket_threads, socket_timers,
                   fetch_timers, events, messages, message_pulls, exhausted, connectivity,
                   is_network_connected, remote, socket_starts, stray_sockets,
                   network_listener_added, lookup, dropped, cycle_ran_disabled,
                   reconnections, network_pulls, stable, failure, last_pull>>

\* load_data: if live: __fetch_config_data() else: cancel the socket
load_data_live(t) ==
    /\ th[t].pc = "D_live"
    /\ IF live_config_update_enabled
       THEN /\ th' = [th EXCEPT ![t] = fetch_config_data(
                            Call([@ EXCEPT !.trigger = "load"], "C_enter", "N_clear"))]
            /\ UNCHANGED <<socket, cycle_ran_disabled>>
       ELSE /\ th' = [th EXCEPT ![t].pc = "N_clear"]
            /\ socket' = IF socket # "None" THEN "cancelled" ELSE socket
            /\ cycle_ran_disabled' = TRUE
    /\ UNCHANGED <<evalVars, feature_map, property_map, segment_map, is_initialized,
                   live_config_update_enabled, configuration_update_listener, config_file,
                   retry_count, on_socket_retry, stored_file, is_loading, app_initialized,
                   load_threads, socket_threads, socket_timers, fetch_timers, events,
                   messages, message_pulls, exhausted, connectivity, is_network_connected,
                   remote, socket_starts, stray_sockets, network_listener_added, lookup,
                   dropped, reconnections, network_pulls, stable, failure, last_pull>>

\* __fetch_config_data after the pull: clear the flag, start the socket thread
fetch_config_data_after(t) ==
    /\ th[t].pc = "C_after"
    /\ on_socket_retry' = FALSE
    /\ socket_threads' = socket_threads + 1
    /\ th' = [th EXCEPT ![t] = Return([@ EXCEPT !.attempts = 0, !.trigger = "none",
                                                !.json = NoSnapshot])]
    /\ UNCHANGED <<evalVars, feature_map, property_map, segment_map, is_initialized,
                   live_config_update_enabled, configuration_update_listener, config_file,
                   retry_count, socket, stored_file, is_loading, app_initialized,
                   load_threads, socket_timers, fetch_timers, events, messages,
                   message_pulls, exhausted, connectivity, is_network_connected, remote,
                   socket_starts, stray_sockets, network_listener_added, lookup, dropped,
                   cycle_ran_disabled, reconnections, network_pulls, stable, failure,
                   last_pull>>

\* self.__is_loading = False
load_data_now_clear(t) ==
    /\ th[t].pc = "N_clear"
    /\ is_loading' = FALSE
    /\ th' = [th EXCEPT ![t] = Return(@)]
    /\ UNCHANGED <<evalVars, feature_map, property_map, segment_map, is_initialized,
                   live_config_update_enabled, configuration_update_listener, config_file,
                   retry_count, on_socket_retry, socket, stored_file, app_initialized,
                   load_threads, socket_threads, socket_timers, fetch_timers, events,
                   messages, message_pulls, exhausted, connectivity, is_network_connected,
                   remote, socket_starts, stray_sockets, network_listener_added, lookup,
                   dropped, cycle_ran_disabled, reconnections, network_pulls, stable,
                   failure, last_pull>>

(***************************************************************************)
(* __fetch_from_api.  The recursive retry is the last statement of its     *)
(* caller, so the recursion is a loop back to the entry.                   *)
(***************************************************************************)
\* if self.__is_initialized: ... (reads the counter for `-= 1`)
fetch_from_api_enter(t) ==
    /\ th[t].pc = "F_enter"
    /\ IF is_initialized
       THEN /\ th' = [th EXCEPT ![t] = [@ EXCEPT !.pc = "F_dec", !.tmp = retry_count]]
            /\ message_pulls' = IF th[t].trigger = "message" /\ th[t].attempts = 0
                                THEN message_pulls + 1 ELSE message_pulls
            /\ network_pulls' = IF th[t].trigger = "network" /\ th[t].attempts = 0
                                THEN network_pulls + 1 ELSE network_pulls
       ELSE /\ th' = [th EXCEPT ![t] = Return(@)]
            /\ UNCHANGED <<message_pulls, network_pulls>>
    /\ UNCHANGED <<evalVars, feature_map, property_map, segment_map, is_initialized,
                   live_config_update_enabled, configuration_update_listener, config_file,
                   retry_count, on_socket_retry, socket, stored_file, is_loading,
                   app_initialized, load_threads, socket_threads, socket_timers,
                   fetch_timers, events, messages, exhausted, connectivity,
                   is_network_connected, remote, socket_starts, stray_sockets,
                   network_listener_added, lookup, dropped, cycle_ran_disabled,
                   reconnections, stable, failure, last_pull>>

\* self.__retry_count -= 1 (stores the decremented value)
fetch_from_api_decrement(t) ==
    /\ th[t].pc = "F_dec"
    /\ retry_count' = th[t].tmp - 1
    /\ th' = [th EXCEPT ![t] = [@ EXCEPT !.pc = "F_request", !.tmp = 0,
                                         !.sent_live = live_config_update_enabled]]
    /\ UNCHANGED <<evalVars, feature_map, property_map, segment_map, is_initialized,
                   live_config_update_enabled, configuration_update_listener, config_file,
                   on_socket_retry, socket, stored_file, is_loading, app_initialized,
                   load_threads, socket_threads, socket_timers, fetch_timers, events,
                   messages, message_pulls, exhausted, connectivity, is_network_connected,
                   remote, socket_starts, stray_sockets, network_listener_added, lookup,
                   dropped, cycle_ran_disabled, reconnections, network_pulls, stable,
                   failure, last_pull>>

\* The GET is answered 2xx with the remote snapshot:
\* if response_data: __write_server_file(response_data), which writes only
\* while live updates are enabled.
fetch_from_api_success(t) ==
    /\ th[t].pc = "F_request"
    /\ stable \/ events < MaxEvents
    /\ events' = IF stable THEN events ELSE events + 1
    /\ LET response_data == remote
       IN  /\ th' = [th EXCEPT ![t] =
                      IF DOMAIN response_data # {} /\ live_config_update_enabled
                      THEN [@ EXCEPT !.pc = "W_store", !.json = response_data,
                                     !.attempts = @ + 1, !.sent_live = FALSE]
                      ELSE Return([@ EXCEPT !.sent_live = FALSE])]
           /\ dropped' = (dropped \/ (/\ DOMAIN response_data # {}
                                      /\ th[t].sent_live
                                      /\ ~live_config_update_enabled))
    /\ last_pull' = "2xx"
    /\ UNCHANGED <<evalVars, feature_map, property_map, segment_map, is_initialized,
                   live_config_update_enabled, configuration_update_listener, config_file,
                   retry_count, on_socket_retry, socket, stored_file, is_loading,
                   app_initialized, load_threads, socket_threads, socket_timers,
                   fetch_timers, messages, message_pulls, exhausted, connectivity,
                   is_network_connected, remote, socket_starts, stray_sockets,
                   network_listener_added, lookup, cycle_ran_disabled, reconnections,
                   network_pulls, stable, failure>>

\* The GET is answered with a non-2xx status: retry now, or give up
fetch_from_api_failure(t) ==
    /\ th[t].pc = "F_request"
    /\ ~stable
    /\ events < MaxEvents
    /\ events' = events + 1
    /\ th' = [th EXCEPT ![t] = [@ EXCEPT !.attempts = @ + 1, !.sent_live = FALSE,
                                         !.pc = IF retry_count > 0 THEN "F_enter"
                                                ELSE "F_reset"]]
    /\ UNCHANGED <<evalVars, feature_map, property_map, segment_map, is_initialized,
                   live_config_update_enabled, configuration_update_listener, config_file,
                   retry_count, on_socket_retry, socket, stored_file, is_loading,
                   app_initialized, load_threads, socket_threads, socket_timers,
                   fetch_timers, messages, message_pulls, exhausted, connectivity,
                   is_network_connected, remote, socket_starts, stray_sockets,
                   network_listener_added, lookup, dropped, cycle_ran_disabled,
                   reconnections, network_pulls, stable, failure, last_pull>>

\* self.__retry_count = 3; Timer(self.__retry_interval, self.__fetch_from_api).start()
fetch_from_api_give_up(t) ==
    /\ th[t].pc = "F_reset"
    /\ retry_count' = RetryCount
    /\ fetch_timers' = fetch_timers + 1
    /\ exhausted' = exhausted \cup {th[t].attempts}
    /\ last_pull' = "retry"
    /\ th' = [th EXCEPT ![t] = Return(@)]
    /\ UNCHANGED <<evalVars, feature_map, property_map, segment_map, is_initialized,
                   live_config_update_enabled, configuration_update_listener, config_file,
                   on_socket_retry, socket, stored_file, is_loading, app_initialized,
                   load_threads, socket_threads, socket_timers, events, messages,
                   message_pulls, connectivity, is_network_connected, remote,
                   socket_starts, stray_sockets, network_listener_added, lookup, dropped,
                   cycle_ran_disabled, reconnections, network_pulls, stable, failure>>

\* The delayed retry runs __fetch_from_api on the timer's thread.
FetchTimerFires ==
    /\ th["timer"].pc = "idle"
    /\ fetch_timers > 0
    /\ fetch_timers' = fetch_timers - 1
    /\ th' = [th EXCEPT !["timer"] = [@ EXCEPT !.pc = "F_enter", !.trigger = "timer"]]
    /\ UNCHANGED <<evalVars, feature_map, property_map, segment_map, is_initialized,
                   live_config_update_enabled, configuration_update_listener, config_file,
                   retry_count, on_socket_retry, socket, stored_file, is_loading,
                   app_initialized, load_threads, socket_threads, socket_timers, events,
                   messages, message_pulls, exhausted, connectivity, is_network_connected,
                   remote, socket_starts, stray_sockets, network_listener_added, lookup,
                   dropped, cycle_ran_disabled, reconnections, network_pulls, stable,
                   failure, last_pull>>

(***************************************************************************)
(* __write_to_file and __load_configurations.                              *)
(***************************************************************************)
\* The next category at or after c whose key is in the document (4: none).
RECURSIVE next_category(_, _)
next_category(all_config, c) ==
    IF c > 3 THEN 4
    ELSE IF Categories[c] \in DOMAIN all_config THEN c
    ELSE next_category(all_config, c + 1)

\* Leave the loop over one category: on to the next one, or return.
after_category(r) ==
    LET c == next_category(r.all_config, r.cat + 1)
    IN  IF c > 3 THEN Return(r)
        ELSE [r EXCEPT !.pc = "L_clear", !.cat = c, !.idx = 0]

\* FileManager.store_files(json)
write_to_file_store(t) ==
    /\ th[t].pc = "W_store"
    /\ stored_file' = th[t].json
    /\ th' = [th EXCEPT ![t] = Call(@, "L_read", "W_notify")]
    /\ UNCHANGED <<evalVars, feature_map, property_map, segment_map, is_initialized,
                   live_config_update_enabled, configuration_update_listener, config_file,
                   retry_count, on_socket_retry, socket, is_loading, app_initialized,
                   load_threads, socket_threads, socket_timers, fetch_timers, events,
                   messages, message_pulls, exhausted, connectivity, is_network_connected,
                   remote, socket_starts, stray_sockets, network_listener_added, lookup,
                   dropped, cycle_ran_disabled, reconnections, network_pulls, stable,
                   failure, last_pull>>

\* if self.__configuration_update_listener ...: self.__configuration_update_listener()
write_to_file_notify(t) ==
    /\ th[t].pc = "W_notify"
    /\ th' = [th EXCEPT ![t] = Return([@ EXCEPT !.json = NoSnapshot, !.caught = FALSE])]
    /\ UNCHANGED <<evalVars, feature_map, property_map, segment_map, is_initialized,
                   live_config_update_enabled, configuration_update_listener, config_file,
                   retry_count, on_socket_retry, socket, stored_file, is_loading,
                   app_initialized, load_threads, socket_threads, socket_timers,
                   fetch_timers, events, messages, message_pulls, exhausted, connectivity,
                   is_network_connected, remote, socket_starts, stray_sockets,
                   network_listener_added, lookup, dropped, cycle_ran_disabled,
                   reconnections, network_pulls, stable, failure, last_pull>>

\* The registered listener raises.  Under __get_file_data nothing catches
\* the exception and it ends the thread.  Under __fetch_from_api the
\* `except Exception` of the 2xx branch catches it and calls
\* __write_server_file(response_data) once more, outside any try.
write_to_file_notify_raises(t) ==
    /\ th[t].pc = "W_notify"
    /\ configuration_update_listener
    /\ LET in_try == th[t].stack = << >> \/ Head(th[t].stack) # "D_reload"
       IN  IF in_try /\ ~th[t].caught
           THEN /\ th' = [th EXCEPT ![t] =
                           IF live_config_update_enabled
                           THEN [@ EXCEPT !.pc = "W_store", !.caught = TRUE]
                           ELSE Return([@ EXCEPT !.json = NoSnapshot])]
                /\ UNCHANGED last_pull
           ELSE /\ th' = [th EXCEPT ![t] = IdleThread]
                /\ last_pull' = IF in_try THEN "raised" ELSE last_pull
    /\ UNCHANGED <<evalVars, feature_map, property_map, segment_map, is_initialized,
                   live_config_update_enabled, configuration_update_listener, config_file,
                   retry_count, on_socket_retry, socket, stored_file, is_loading,
                   app_initialized, load_threads, socket_threads, socket_timers,
                   fetch_timers, events, messages, message_pulls, exhausted, connectivity,
                   is_network_connected, remote, socket_starts, stray_sockets,
                   network_listener_added, lookup, dropped, cycle_ran_disabled,
                   reconnections, network_pulls, stable, failure>>

\* all_config = FileManager.read_files(); if all_config: ...
load_configurations_read(t) ==
    /\ th[t].pc = "L_read"
    /\ th' = [th EXCEPT ![t] =
                IF DOMAIN stored_file = {}
                THEN Return(@)
                ELSE after_category([@ EXCEPT !.all_config = stored_file, !.cat = 0])]
    /\ lookup' = IF t = "app"
                 THEN [lookup EXCEPT !.reloads = @ + 1, !.snapshot = stored_file]
                 ELSE lookup
    /\ UNCHANGED <<evalVars, feature_map, property_map, segment_map, is_initialized,
                   live_config_update_enabled, configuration_update_listener, config_file,
                   retry_count, on_socket_retry, socket, stored_file, is_loading,
                   app_initialized, load_threads, socket_threads, socket_timers,
                   fetch_timers, events, messages, message_pulls, exhausted, connectivity,
                   is_network_connected, remote, socket_starts, stray_sockets,
                   network_listener_added, dropped, cycle_ran_disabled, reconnections,
                   network_pulls, stable, failure, last_pull>>

CacheMap(c) == IF c = 1 THEN feature_map ELSE IF c = 2 THEN property_map ELSE segment_map
\* Assign the map of category c.
SetCacheMap(c, m) ==
    /\ feature_map' = IF c = 1 THEN m ELSE feature_map
    /\ property_map' = IF c = 2 THEN m ELSE property_map
    /\ segment_map' = IF c = 3 THEN m ELSE segment_map

\* self.__feature_map = dict()  (or the property / segment map)
load_configurations_clear(t) ==
    /\ th[t].pc = "L_clear"
    /\ SetCacheMap(th[t].cat, EmptyMap)
    /\ th' = [th EXCEPT ![t] =
                IF Len(@.all_config[Categories[@.cat]]) = 0
                THEN after_category(@)
                ELSE [@ EXCEPT !.pc = "L_put", !.idx = 1]]
    /\ UNCHANGED <<evalVars, is_initialized, live_config_update_enabled,
                   configuration_update_listener, config_file, retry_count,
                   on_socket_retry, socket, stored_file, is_loading, app_initialized,
                   load_threads, socket_threads, socket_timers, fetch_timers, events,
                   messages, message_pulls, exhausted, connectivity, is_network_connected,
                   remote, socket_starts, stray_sockets, network_listener_added, lookup,
                   dropped, cycle_ran_disabled, reconnections, network_pulls, stable,
                   failure, last_pull>>

\* One round of the loop: build the object and store it under its id; an
\* exception of the constructor leaves the loop of this category.
load_configurations_put(t) ==
    /\ th[t].pc = "L_put"
    /\ LET r == th[t]
           entries == r.all_config[Categories[r.cat]]
           entry == entries[r.idx]
       IN  IF EntryParses(entry)
           THEN /\ SetCacheMap(r.cat, MapPut(CacheMap(r.cat), EntryId(entry), entry))
                /\ th' = [th EXCEPT ![t] = IF r.idx < Len(entries)
                                           THEN [r EXCEPT !.idx = r.idx + 1]
                                           ELSE after_category(r)]
           ELSE /\ UNCHANGED cacheVars
                /\ th' = [th EXCEPT ![t] = after_category(r)]
    /\ UNCHANGED <<evalVars, is_initialized, live_config_update_enabled,
                   configuration_update_listener, config_file, retry_count,
                   on_socket_retry, socket, stored_file, is_loading, app_initialized,
                   load_threads, socket_threads, socket_timers, fetch_timers, events,
                   messages, message_pulls, exhausted, connectivity, is_network_connected,
                   remote, socket_starts, stray_sockets, network_listener_added, lookup,
                   dropped, cycle_ran_disabled, reconnections, network_pulls, stable,
                   failure, last_pull>>

(***************************************************************************)
(* The connectivity listener, called by Connectivity on the thread "net",  *)
(* one notification after the other.                                       *)
(***************************************************************************)
\* The listener pulling on every 'online' notification.
NetworkListenerPullsOnEveryOnline(is_connected) ==
    /\ network_listener_added
    /\ th["net"].pc = "idle"
    /\ stable => is_connected
    /\ events < MaxEvents
    /\ events' = events + 1
    /\ reconnections' = IF /\ live_config_update_enabled
                           /\ is_connected /\ ~is_network_connected
                        THEN reconnections + 1 ELSE reconnections
    /\ IF ~live_config_update_enabled
       THEN /\ connectivity' = FALSE
            /\ UNCHANGED <<is_network_connected, th>>
       ELSE IF is_connected
            THEN /\ is_network_connected' = TRUE
                 /\ th' = [th EXCEPT !["net"] =
                             fetch_config_data([@ EXCEPT !.trigger = "network"])]
                 /\ UNCHANGED connectivity
            ELSE /\ is_network_connected' = FALSE
                 /\ UNCHANGED <<connectivity, th>>
    /\ UNCHANGED <<evalVars, feature_map, property_map, segment_map, is_initialized,
                   live_config_update_enabled, configuration_update_listener, config_file,
                   retry_count, on_socket_retry, socket, stored_file, is_loading,
                   app_initialized, load_threads, socket_threads, socket_timers,
                   fetch_timers, messages, message_pulls, exhausted, remote, socket_starts,
                   stray_sockets, network_listener_added, lookup, dropped,
                   cycle_ran_disabled, network_pulls, stable, failure, last_pull>>
\* __network_listener(is_connected)
network_listener(is_connected) ==
    /\ network_listener_added
    /\ th["net"].pc = "idle"
    /\ stable => is_connected
    /\ events < MaxEvents
    /\ events' = events + 1
    /\ reconnections' = IF /\ live_config_update_enabled
                           /\ is_connected /\ ~is_network_connected
                        THEN reconnections + 1 ELSE reconnections
    /\ IF ~live_config_update_enabled
       THEN /\ connectivity' = FALSE
            /\ UNCHANGED <<is_network_connected, th>>
       ELSE IF is_connected
            THEN IF ~is_network_connected
                 THEN /\ is_network_connected' = TRUE
                      /\ th' = [th EXCEPT !["net"] =
                                  fetch_config_data([@ EXCEPT !.trigger = "network"])]
                      /\ UNCHANGED connectivity
                 ELSE UNCHANGED <<connectivity, is_network_connected, th>>
            ELSE /\ is_network_connected' = FALSE
                 /\ UNCHANGED <<connectivity, th>>
    /\ UNCHANGED <<evalVars, feature_map, property_map, segment_map, is_initialized,
                   live_config_update_enabled, configuration_update_listener, config_file,
                   retry_count, on_socket_retry, socket, stored_file, is_loading,
                   app_initialized, load_threads, socket_threads, socket_timers,
                   fetch_timers, messages, message_pulls, exhausted, remote, socket_starts,
                   stray_sockets, network_listener_added, lookup, dropped,
                   cycle_ran_disabled, network_pulls, stable, failure, last_pull>>

(***************************************************************************)
(* get_feature and get_property, called by the application on the thread   *)
(* "app".                                                                  *)
(***************************************************************************)
FeatureIds == {"f1", "f2"}
PropertyIds == {"p1"}

\* Nothing but the application's own call can touch the cache.
Quiet ==
    /\ \A t \in Threads \ {"app"} : th[t].pc = "idle"
    /\ load_threads = 0 /\ fetch_timers = 0
    /\ socket \notin {"connecting", "open"} /\ socket_starts = 0

LookupMap == IF lookup.kind = "feature" THEN feature_map ELSE property_map

NewLookup(k, id, map) ==
    [kind |-> k, id |-> id, returned |-> "pending", reloads |-> 0,
     snapshot |-> NoSnapshot, serial |-> Quiet, cached |-> id \in DOMAIN map]

\* The application calls get_feature(feature_id).
get_feature ==
    /\ app_initialized /\ is_initialized
    /\ th["app"].pc = "idle"
    /\ events < MaxEvents
    /\ events' = events + 1
    /\ \E feature_id \in FeatureIds :
         lookup' = NewLookup("feature", feature_id, feature_map)
    /\ th' = [th EXCEPT !["app"].pc = "G_check"]
    /\ UNCHANGED <<evalVars, feature_map, property_map, segment_map, is_initialized,
                   live_config_update_enabled, configuration_update_listener, config_file,
                   retry_count, on_socket_retry, socket, stored_file, is_loading,
                   app_initialized, load_threads, socket_threads, socket_timers,
                   fetch_timers, messages, message_pulls, exhausted, connectivity,
                   is_network_connected, remote, socket_starts, stray_sockets,
                   network_listener_added, dropped, cycle_ran_disabled, reconnections,
                   network_pulls, stable, failure, last_pull>>

\* The application calls get_property(property_id).
get_property ==
    /\ app_initialized /\ is_initialized
    /\ th["app"].pc = "idle"
    /\ events < MaxEvents
    /\ events' = events + 1
    /\ \E property_id \in PropertyIds :
         lookup' = NewLookup("property", property_id, property_map)
    /\ th' = [th EXCEPT !["app"].pc = "G_check"]
    /\ UNCHANGED <<evalVars, feature_map, property_map, segment_map, is_initialized,
                   live_config_update_enabled, configuration_update_listener, config_file,
                   retry_count, on_socket_retry, socket, stored_file, is_loading,
                   app_initialized, load_threads, socket_threads, socket_timers,
                   fetch_timers, messages, message_pulls, exhausted, connectivity,
                   is_network_connected, remote, socket_starts, stray_sockets,
                   network_listener_added, dropped, cycle_ran_disabled, reconnections,
                   network_pulls, stable, failure, last_pull>>

\* if feature_id in self.__feature_map: ... ; self.__load_configurations();
\* if feature_id in self.__feature_map: ... ; return None
get_check ==
    /\ th["app"].pc \in {"G_check", "G_retry"}
    /\ IF lookup.id \in DOMAIN LookupMap
       THEN /\ th' = [th EXCEPT !["app"].pc = "G_get"]
            /\ UNCHANGED lookup
       ELSE IF th["app"].pc = "G_check"
            THEN /\ th' = [th EXCEPT !["app"] = Call(@, "L_read", "G_retry")]
                 /\ UNCHANGED lookup
            ELSE /\ th' = [th EXCEPT !["app"] = Return(@)]
                 /\ lookup' = [lookup EXCEPT !.returned = "None"]
    /\ UNCHANGED <<evalVars, feature_map, property_map, segment_map, is_initialized,
                   live_config_update_enabled, configuration_update_listener, config_file,
                   retry_count, on_socket_retry, socket, stored_file, is_loading,
                   app_initialized, load_threads, socket_threads, socket_timers,
                   fetch_timers, events, messages, message_pulls, exhausted, connectivity,
                   is_network_connected, remote, socket_starts, stray_sockets,
                   network_listener_added, dropped, cycle_ran_disabled, reconnections,
                   network_pulls, stable, failure, last_pull>>

\* return self.__feature_map.get(feature_id)
get_return ==
    /\ th["app"].pc = "G_get"
    /\ lookup' = [lookup EXCEPT !.returned =
                     IF lookup.id \in DOMAIN LookupMap
                     THEN EntryId(LookupMap[lookup.id]) ELSE "None"]
    /\ th' = [th EXCEPT !["app"] = Return(@)]
    /\ UNCHANGED <<evalVars, feature_map, property_map, segment_map, is_initialized,
                   live_config_update_enabled, configuration_update_listener, config_file,
                   retry_count, on_socket_retry, socket, stored_file, is_loading,
                   app_initialized, load_threads, socket_threads, socket_timers,
                   fetch_timers, events, messages, message_pulls, exhausted, connectivity,
                   is_network_connected, remote, socket_starts, stray_sockets,
                   network_listener_added, dropped, cycle_ran_disabled, reconnections,
                   network_pulls, stable, failure, last_pull>>

(***************************************************************************)
(* The push subscription.                                                  *)
(***************************************************************************)
\* __start_web_socket on the thread __fetch_config_data started, up to
\* self.__socket = None: the Socket held is cancelled and dropped
start_web_socket_thread ==
    /\ socket_threads > 0
    /\ socket_threads' = socket_threads - 1
    /\ socket' = "None"
    /\ socket_starts' = socket_starts + 1
    /\ UNCHANGED <<evalVars, feature_map, property_map, segment_map, is_initialized,
                   live_config_update_enabled, configuration_update_listener, config_file,
                   retry_count, on_socket_retry, stored_file, is_loading, app_initialized,
                   load_threads, socket_timers, fetch_timers, th, events, messages,
                   message_pulls, exhausted, connectivity, is_network_connected, remote,
                   stray_sockets, network_listener_added, lookup, dropped,
                   cycle_ran_disabled, reconnections, network_pulls, stable, failure,
                   last_pull>>

\* The same, run by a reconnect timer
start_web_socket_timer ==
    /\ socket_timers > 0
    /\ socket_timers' = socket_timers - 1
    /\ socket' = "None"
    /\ socket_starts' = socket_starts + 1
    /\ UNCHANGED <<evalVars, feature_map, property_map, segment_map, is_initialized,
                   live_config_update_enabled, configuration_update_listener, config_file,
                   retry_count, on_socket_retry, stored_file, is_loading, app_initialized,
                   load_threads, socket_threads, fetch_timers, th, events, messages,
                   message_pulls, exhausted, connectivity, is_network_connected, remote,
                   stray_sockets, network_listener_added, lookup, dropped,
                   cycle_ran_disabled, reconnections, network_pulls, stable, failure,
                   last_pull>>

\* self.__socket = Socket(); self.__socket.setup(...): a Socket another start
\* assigned meanwhile is overwritten without being cancelled
start_web_socket_setup ==
    /\ socket_starts > 0
    /\ socket_starts' = socket_starts - 1
    /\ stray_sockets' = IF socket \in {"connecting", "open"}
                        THEN stray_sockets + 1 ELSE stray_sockets
    /\ socket' = "connecting"
    /\ UNCHANGED <<evalVars, feature_map, property_map, segment_map, is_initialized,
                   live_config_update_enabled, configuration_update_listener, config_file,
                   retry_count, on_socket_retry, stored_file, is_loading, app_initialized,
                   load_threads, socket_threads, socket_timers, fetch_timers, th, events,
                   messages, message_pulls, exhausted, connectivity, is_network_connected,
                   remote, network_listener_added, lookup, dropped, cycle_ran_disabled,
                   reconnections, network_pulls, stable, failure, last_pull>>

\* The message branch consulting the loading flag: no pull during a sync cycle.
OnMessageSkippedWhileLoading ==
    /\ th["sock"].pc = "idle"
    /\ socket = "open"
    /\ events < MaxEvents
    /\ events' = events + 1
    /\ messages' = messages + 1
    /\ th' = IF is_loading THEN th
             ELSE [th EXCEPT !["sock"] = [@ EXCEPT !.pc = "F_enter", !.trigger = "message"]]
    /\ UNCHANGED <<evalVars, feature_map, property_map, segment_map, is_initialized,
                   live_config_update_enabled, configuration_update_listener, config_file,
                   retry_count, on_socket_retry, socket, stored_file, is_loading,
                   app_initialized, load_threads, socket_threads, socket_timers,
                   fetch_timers, message_pulls, exhausted, connectivity,
                   is_network_connected, remote, socket_starts, stray_sockets,
                   network_listener_added, lookup, dropped, cycle_ran_disabled,
                   reconnections, network_pulls, stable, failure, last_pull>>
\* __on_web_socket_callback(message=...)
on_web_socket_message ==
    /\ th["sock"].pc = "idle"
    /\ socket = "open"
    /\ events < MaxEvents
    /\ events' = events + 1
    /\ messages' = messages + 1
    /\ th' = [th EXCEPT !["sock"] = [@ EXCEPT !.pc = "F_enter", !.trigger = "message"]]
    /\ UNCHANGED <<evalVars, feature_map, property_map, segment_map, is_initialized,
                   live_config_update_enabled, configuration_update_listener, config_file,
                   retry_count, on_socket_retry, socket, stored_file, is_loading,
                   app_initialized, load_threads, socket_threads, socket_timers,
                   fetch_timers, message_pulls, exhausted, connectivity,
                   is_network_connected, remote, socket_starts, stray_sockets,
                   network_listener_added, lookup, dropped, cycle_ran_disabled,
                   reconnections, network_pulls, stable, failure, last_pull>>

\* __on_web_socket_callback(error_state=...)
on_web_socket_error ==
    /\ th["sock"].pc = "idle"
    /\ socket \in {"connecting", "open"}
    /\ events < MaxEvents
    /\ ~stable
    /\ events' = events + 1
    /\ socket_timers' = socket_timers + 1
    /\ socket' = "failed"
    /\ failure' = "error"
    /\ UNCHANGED <<evalVars, feature_map, property_map, segment_map, is_initialized,
                   live_config_update_enabled, configuration_update_listener, config_file,
                   retry_count, on_socket_retry, stored_file, is_loading, app_initialized,
                   load_threads, socket_threads, fetch_timers, th, messages, message_pulls,
                   exhausted, connectivity, is_network_connected, remote, socket_starts,
                   stray_sockets, network_listener_added, lookup, dropped,
                   cycle_ran_disabled, reconnections, network_pulls, stable, last_pull>>

\* __on_web_socket_callback(closed_state=...): self.__socket is not None here
on_web_socket_closed ==
    /\ th["sock"].pc = "idle"
    /\ socket = "open"
    /\ events < MaxEvents
    /\ ~stable
    /\ events' = events + 1
    /\ on_socket_retry' = TRUE
    /\ socket_timers' = socket_timers + 1
    /\ socket' = "closed"
    /\ failure' = "closed"
    /\ UNCHANGED <<evalVars, feature_map, property_map, segment_map, is_initialized,
                   live_config_update_enabled, configuration_update_listener, config_file,
                   retry_count, stored_file, is_loading, app_initialized, load_threads,
                   socket_threads, fetch_timers, th, messages, message_pulls, exhausted,
                   connectivity, is_network_connected, remote, socket_starts,
                   stray_sockets, network_listener_added, lookup, dropped,
                   cycle_ran_disabled, reconnections, network_pulls, stable, last_pull>>

\* __on_web_socket_callback(open_state=...)
on_web_socket_open ==
    /\ th["sock"].pc = "idle"
    /\ socket = "connecting"
    /\ socket' = "open"
    /\ failure' = "none"
    /\ IF on_socket_retry
       THEN /\ on_socket_retry' = FALSE
            /\ th' = [th EXCEPT !["sock"] = [@ EXCEPT !.pc = "F_enter", !.trigger = "open"]]
       ELSE UNCHANGED <<on_socket_retry, th>>
    /\ UNCHANGED <<evalVars, feature_map, property_map, segment_map, is_initialized,
                   live_config_update_enabled, configuration_update_listener, config_file,
                   retry_count, stored_file, is_loading, app_initialized, load_threads,
                   socket_threads, socket_timers, fetch_timers, events, messages,
                   message_pulls, exhausted, connectivity, is_network_connected, remote,
                   socket_starts, stray_sockets, network_listener_added, lookup, dropped,
                   cycle_ran_disabled, reconnections, network_pulls, stable, last_pull>>

(***************************************************************************)
(* The synchronisation engine.                                             *)
(***************************************************************************)
InitHandler ==
    /\ is_initialized = FALSE
    /\ live_config_update_enabled = TRUE
    /\ configuration_update_listener = FALSE
    /\ config_file = FALSE
    /\ retry_count = RetryCount
    /\ on_socket_retry = FALSE
    /\ socket = "None"
    /\ connectivity = FALSE
    /\ is_network_connected = TRUE

NoLookup == [kind |-> "none", id |-> "none", returned |-> "none", reloads |-> 0,
             snapshot |-> NoSnapshot, serial |-> FALSE, cached |-> FALSE]

InitEnvironment ==
    /\ stored_file = NoSnapshot
    /\ is_loading = FALSE
    /\ app_initialized = FALSE
    /\ load_threads = 0 /\ socket_threads = 0
    /\ socket_timers = 0 /\ fetch_timers = 0
    /\ socket_starts = 0 /\ stray_sockets = 0
    /\ network_listener_added = FALSE
    /\ th = [t \in Threads |-> IdleThread]
    /\ events = 0 /\ messages = 0 /\ message_pulls = 0
    /\ exhausted = {}
    /\ lookup = NoLookup
    /\ dropped = FALSE
    /\ cycle_ran_disabled = FALSE
    /\ reconnections = 0 /\ network_pulls = 0
    /\ stable = FALSE
    /\ failure = "none" /\ last_pull = "none"

\* No evaluation call is made while the engine is observed.
InitNoCall ==
    /\ kind = "feature"
    /\ feature = [feature_id |-> "f1", enabled |-> TRUE, enabled_value |-> "on",
                  disabled_value |-> "off", segment_rules |-> << >>]
    /\ property_obj = [property_id |-> "p1", value |-> "base", segment_rules |-> << >>]
    /\ entity_attributes = [is_none |-> TRUE, items |-> {}]
    /\ metering_fails = FALSE
    /\ eval_pc = "idle"
    /\ result = NoResult
    /\ metering = << >>

InitSync ==
    /\ InitNoCall
    /\ feature_map = EmptyMap /\ property_map = EmptyMap /\ segment_map = EmptyMap
    /\ InitHandler
    /\ InitEnvironment
    /\ remote \in ResponseBodies

ThreadStep(t) ==
    \/ load_data_now_check(t)
    \/ load_data_now_set(t)
    \/ load_data_reload(t)
    \/ load_data_live(t)
    \/ fetch_config_data_after(t)
    \/ load_data_now_clear(t)
    \/ fetch_from_api_enter(t)
    \/ fetch_from_api_decrement(t)
    \/ fetch_from_api_success(t)
    \/ fetch_from_api_failure(t)
    \/ fetch_from_api_give_up(t)
    \/ write_to_file_store(t)
    \/ write_to_file_notify(t)
    \/ load_configurations_read(t)
    \/ load_configurations_clear(t)
    \/ load_configurations_put(t)

NextSync ==
    \/ init
    \/ set_context
    \/ fetch_configurations
    \/ register_configuration_update_listener
    \/ RemoteChanges
    \/ LoadThreadStarts("load")
    \/ FetchTimerFires
    \/ start_web_socket_thread
    \/ start_web_socket_timer
    \/ start_web_socket_setup
    \/ on_web_socket_message
    \/ on_web_socket_error
    \/ on_web_socket_closed
    \/ on_web_socket_open
    \/ \E t \in Threads : ThreadStep(t)

SpecSync == InitSync /\ [][NextSync]_vars

(***************************************************************************)
(* Concurrent triggers: every started thread runs __load_data_now at once. *)
(***************************************************************************)
InitLoad ==
    /\ InitNoCall
    /\ feature_map = EmptyMap /\ property_map = EmptyMap /\ segment_map = EmptyMap
    /\ InitHandler
    /\ InitEnvironment
    /\ remote = SnapshotA

NextLoad ==
    \/ init
    \/ set_context
    \/ fetch_configurations
    \/ \E t \in Loaders : LoadThreadStarts(t)
    \/ \E t \in Loaders : ThreadStep(t)

SpecLoad == InitLoad /\ [][NextLoad]_vars

(***************************************************************************)
(* Convergence: the engine and its environment up to the moment the        *)
(* environment settles, and after it.  Timers fire, started threads run,   *)
(* connections that are being set up open and requests are answered.       *)
(***************************************************************************)
NextConverge ==
    \/ init
    \/ set_context
    \/ RemoteChanges
    \/ Settle
    \/ LoadThreadStarts("load")
    \/ FetchTimerFires
    \/ start_web_socket_thread
    \/ start_web_socket_timer
    \/ start_web_socket_setup
    \/ on_web_socket_message
    \/ on_web_socket_error
    \/ on_web_socket_closed
    \/ on_web_socket_open
    \/ \E is_connected \in BOOLEAN : network_listener(is_connected)
    \/ \E t \in Threads : ThreadStep(t)

FairConverge ==
    /\ \A t \in Threads : WF_vars(ThreadStep(t))
    /\ WF_vars(LoadThreadStarts("load"))
    /\ WF_vars(FetchTimerFires)
    /\ WF_vars(start_web_socket_thread)
    /\ WF_vars(start_web_socket_timer)
    /\ WF_vars(start_web_socket_setup)
    /\ WF_vars(on_web_socket_open)

SpecConverge == InitLoad /\ [][NextConverge]_vars /\ FairConverge

(***************************************************************************)
(* Connectivity: sync cycles and the notifications of Connectivity.        *)
(***************************************************************************)
NextNetwork ==
    \/ init
    \/ set_context
    \/ LoadThreadStarts("load")
    \/ \E is_connected \in BOOLEAN : network_listener(is_connected)
    \/ \E t \in Threads : ThreadStep(t)

SpecNetwork == InitLoad /\ [][NextNetwork]_vars

(***************************************************************************)
(* Reloads and lookups: the engine after init and set_context (live        *)
(* updates enabled, with or without a configuration file), the service     *)
(* holding any document; one sync cycle and the application's lookups.     *)
(***************************************************************************)
InitReload ==
    /\ InitNoCall
    /\ feature_map = EmptyMap /\ property_map = EmptyMap /\ segment_map = EmptyMap
    /\ is_initialized = TRUE
    /\ live_config_update_enabled = TRUE
    /\ configuration_update_listener = FALSE
    /\ config_file \in BOOLEAN
    /\ retry_count = RetryCount
    /\ on_socket_retry = FALSE
    /\ socket = "None"
    /\ connectivity = TRUE
    /\ is_network_connected = TRUE
    /\ stored_file = NoSnapshot
    /\ remote \in ReloadSnapshots
    /\ is_loading = FALSE
    /\ app_initialized = TRUE
    /\ load_threads = 1 /\ socket_threads = 0
    /\ socket_timers = 0 /\ fetch_timers = 0
    /\ socket_starts = 0 /\ stray_sockets = 0
    /\ network_listener_added = TRUE
    /\ th = [t \in Threads |-> IdleThread]
    /\ events = 1 /\ messages = 0 /\ message_pulls = 0
    /\ exhausted = {}
    /\ lookup = NoLookup
    /\ dropped = FALSE
    /\ cycle_ran_disabled = FALSE
    /\ reconnections = 0 /\ network_pulls = 0
    /\ stable = FALSE
    /\ failure = "none" /\ last_pull = "none"

NextReload ==
    \/ LoadThreadStarts("load")
    \/ get_feature
    \/ get_property
    \/ get_check
    \/ get_return
    \/ \E t \in Threads : ThreadStep(t)

SpecReload == InitReload /\ [][NextReload]_vars

(***************************************************************************)
(* Retries: the engine after init and set_context (live updates enabled,   *)
(* with or without a file), its first sync cycle about to run; `events`    *)
(* counts the environment's events from here on.  Pulls are started by the *)
(* cycle, by push messages, by a reopened connection, by connectivity      *)
(* notifications and by delayed retries.                                   *)
(***************************************************************************)
InitRetry ==
    /\ InitNoCall
    /\ feature_map = EmptyMap /\ property_map = EmptyMap /\ segment_map = EmptyMap
    /\ is_initialized = TRUE
    /\ live_config_update_enabled = TRUE
    /\ configuration_update_listener = FALSE
    /\ config_file \in BOOLEAN
    /\ retry_count = RetryCount
    /\ on_socket_retry = FALSE
    /\ socket = "None"
    /\ connectivity = TRUE
    /\ is_network_connected = TRUE
    /\ stored_file = NoSnapshot
    /\ remote = SnapshotA
    /\ is_loading = FALSE
    /\ app_initialized = TRUE
    /\ load_threads = 1 /\ socket_threads = 0
    /\ socket_timers = 0 /\ fetch_timers = 0
    /\ socket_starts = 0 /\ stray_sockets = 0
    /\ network_listener_added = TRUE
    /\ th = [t \in Threads |-> IdleThread]
    /\ events = 0 /\ messages = 0 /\ message_pulls = 0
    /\ exhausted = {}
    /\ lookup = NoLookup
    /\ dropped = FALSE
    /\ cycle_ran_disabled = FALSE
    /\ reconnections = 0 /\ network_pulls = 0
    /\ stable = FALSE
    /\ failure = "none" /\ last_pull = "none"

NextRetry ==
    \/ LoadThreadStarts("load")
    \/ FetchTimerFires
    \/ start_web_socket_thread
    \/ start_web_socket_timer
    \/ start_web_socket_setup
    \/ on_web_socket_message
    \/ on_web_socket_error
    \/ on_web_socket_closed
    \/ on_web_socket_open
    \/ \E is_connected \in BOOLEAN : network_listener(is_connected)
    \/ \E t \in Threads : ThreadStep(t)

SpecRetry == InitRetry /\ [][NextRetry]_vars

(***************************************************************************)
(* The loading flag: sync cycles one after the other, with a registered    *)
(* listener that may raise.                                                *)
(***************************************************************************)
NextGuard ==
    \/ init
    \/ set_context
    \/ fetch_configurations
    \/ register_configuration_update_listener
    \/ LoadThreadStarts("load")
    \/ \E t \in Threads : ThreadStep(t)
    \/ \E t \in Threads : write_to_file_notify_raises(t)

SpecGuard == InitLoad /\ [][NextGuard]_vars

\* Metering.add_metering is pure accumulation: it does not raise.
InitEval ==
    /\ InitCall /\ metering_fails = FALSE /\ InitCache /\ InitHandler /\ InitEnvironment
    /\ remote = NoSnapshot
\* The metering call may raise.
InitMeteringFault ==
    /\ InitCall /\ metering_fails \in BOOLEAN /\ InitCache /\ InitHandler
    /\ InitEnvironment
    /\ remote = NoSnapshot

NextEval == feature_evaluation \/ property_evaluation

SpecEval == InitEval /\ [][NextEval]_vars
SpecMeteringFault == InitMeteringFault /\ [][NextEval]_vars

(***************************************************************************)
(* Evaluation claims.                                                      *)
(***************************************************************************)
CallRules == IF kind = "feature" THEN feature.segment_rules ELSE property_obj.segment_rules
CallDefault == IF kind = "feature" THEN feature.enabled_value ELSE property_obj.value
HasAttributes == ~entity_attributes.is_none /\ entity_attributes.items # {}
\* The call reaches the segment rules: attributes given, feature enabled.
RulesApply == HasAttributes /\ (kind = "feature" => feature.enabled)
RecordedSegment == metering[Len(metering)].segment_id

Matches(segment_key) == evaluate_segment(segment_key, entity_attributes, segment_map)

\* <<n, l, k>>: segment k of level l of the n-th listed rule matches.
MatchPositions ==
    { c \in (1..Len(CallRules)) \X (1..2) \X (1..2) :
        /\ CallRules[c[1]].ok
        /\ c[2] <= Len(CallRules[c[1]].rules)
        /\ CallRules[c[1]].rules[c[2]].has_segments
        /\ c[3] <= Len(CallRules[c[1]].rules[c[2]].segments)
        /\ Matches(CallRules[c[1]].rules[c[2]].segments[c[3]]) }
SegmentAt(c) == CallRules[c[1]].rules[c[2]].segments[c[3]]
\* c comes before d by rule order, then level position, then segment position.
Before(c, d) ==
    LET oc == CallRules[c[1]].order
        od == CallRules[d[1]].order
    IN  \/ oc < od
        \/ oc = od /\ c[2] < d[2]
        \/ oc = od /\ c[2] = d[2] /\ c[3] < d[3]
FirstMatches == { SegmentAt(c) : c \in { c \in MatchPositions :
                                           \A d \in MatchPositions : ~Before(d, c) } }

\* C1: with attributes given (feature enabled), the recorded segment id is
\* that of the first matching segment by ascending rule order, then level
\* position, then segment position (the default id when none matches), and
\* no segment is evaluated after a match.
C1_FirstMatchByOrder ==
    (eval_pc = "done" /\ RulesApply) =>
        /\ IF FirstMatches = {}
           THEN RecordedSegment = DEFAULT_SEGMENT_ID
           ELSE RecordedSegment \in FirstMatches
        /\ \A i \in 1..(Len(result.trace) - 1) : ~Matches(result.trace[i])

RuleNames(n, segment_key) ==
    \E l \in 1..Len(CallRules[n].rules) :
        /\ CallRules[n].rules[l].has_segments
        /\ \E k \in 1..Len(CallRules[n].rules[l].segments) :
               CallRules[n].rules[l].segments[k] = segment_key

\* C2: a match returns the matching rule's literal value, or the enabled /
\* base value when the rule's value is "$default"; when no rule matches the
\* enabled / base value is returned and the default segment id is recorded.
C2_ValueOfMatchOrDefault ==
    (eval_pc = "done" /\ RulesApply) =>
        /\ RecordedSegment # DEFAULT_SEGMENT_ID =>
              /\ ~result.raised
              /\ \E n \in 1..Len(CallRules) :
                     /\ CallRules[n].ok
                     /\ RuleNames(n, RecordedSegment)
                     /\ result.value = (IF CallRules[n].value = "$default"
                                        THEN CallDefault ELSE CallRules[n].value)
        /\ MatchPositions = {} =>
              /\ ~result.raised
              /\ result.value = CallDefault
              /\ RecordedSegment = DEFAULT_SEGMENT_ID

\* C3 as claimed: every feature and every property called with None or empty
\* attributes returns the enabled / base value and records the default id.
C3_NoAttributesAnyFeature ==
    (eval_pc = "done" /\ ~HasAttributes) =>
        /\ ~result.raised
        /\ result.value = CallDefault
        /\ RecordedSegment = DEFAULT_SEGMENT_ID

\* C3 amended: every enabled feature and every property called with None or
\* empty attributes returns the enabled / base value and records the
\* default segment id, whatever rules are configured.
C3_NoAttributesEnabled ==
    (eval_pc = "done" /\ ~HasAttributes /\ (kind = "feature" => feature.enabled)) =>
        /\ ~result.raised
        /\ result.value = CallDefault
        /\ RecordedSegment = DEFAULT_SEGMENT_ID
C3_Witness ==
    /\ eval_pc = "done" /\ kind = "feature" /\ feature.enabled
    /\ ~entity_attributes.is_none /\ entity_attributes.items = {}
    /\ Len(CallRules) = 2 /\ CallRules[1].ok /\ CallRules[1].order = 2
    /\ result.value = "on"

\* C4: a disabled feature returns its disabled value, evaluates no segment
\* rule and records the default segment id, for every attribute set and
\* rule list.
C4_DisabledFeature ==
    (eval_pc = "done" /\ kind = "feature" /\ ~feature.enabled) =>
        /\ ~result.raised
        /\ result.value = feature.disabled_value
        /\ ~result.parsed
        /\ result.trace = << >>
        /\ RecordedSegment = DEFAULT_SEGMENT_ID
C4_Witness ==
    /\ eval_pc = "done" /\ kind = "feature" /\ ~feature.enabled
    /\ HasAttributes /\ MatchPositions # {}
    /\ result.value = "off"

\* C5: every call of feature_evaluation / property_evaluation hands exactly
\* one metering record to the aggregator, on every path, also when the rule
\* evaluation raises.
C5_OneMeteringRecord ==
    /\ eval_pc = "call" => Len(metering) = 0
    /\ eval_pc = "done" => Len(metering) = 1
C5_Witness ==
    /\ eval_pc = "done" /\ result.raised /\ result.parsed
    /\ Len(metering) = 1

\* C6: the evaluation never raises to the caller because of the shape of
\* the rule data; it returns a value.
C6_NeverRaises ==
    eval_pc = "done" => (~result.raised /\ result.value # NoValue)

\* C7: what the evaluation returns is the same whether the metering call
\* succeeds or raises.
C7_MeteringFailureKeepsValue ==
    eval_pc = "done" =>
        LET body == IF kind = "feature"
                    THEN feature_try(feature, entity_attributes, segment_map)
                    ELSE property_try(property_obj, entity_attributes, segment_map)
        IN  result.raised = body.raised /\ result.value = body.value

(***************************************************************************)
(* Synchronisation claims.                                                 *)
(***************************************************************************)
\* C8: a pull whose requests are all answered non-2xx gives up (schedules
\* the delayed retry) only after 3 failed attempts in a row, whatever pulls
\* preceded it.
C8_ThreeAttemptsBeforeDelayedRetry ==
    \A attempts \in exhausted : attempts = 3

\* The callback has been called with a message and its pull has not begun.
MessagePullDue ==
    /\ th["sock"].pc = "F_enter"
    /\ th["sock"].trigger = "message"
    /\ th["sock"].attempts = 0

\* C9: every push message delivered to the socket callback begins exactly
\* one pull, in every state of the engine: the pulls begun for messages are
\* as many as the messages delivered (less the one whose callback was just
\* entered).
C9_OnePullPerMessage ==
    messages = message_pulls + (IF MessagePullDue THEN 1 ELSE 0)
\* A message's pull begins while the pull of a sync cycle is in flight.
C9_Witness ==
    /\ message_pulls >= 1
    /\ th["sock"].trigger = "message" /\ th["sock"].pc = "F_request"
    /\ th["load"].pc = "F_request"

\* The map a complete reload of one category of a snapshot leaves.
SnapshotMap(snapshot, category) ==
    LET entries == snapshot[category]
        good == { i \in 1..Len(entries) : EntryParses(entries[i]) }
    IN  [id \in { EntryId(entries[i]) : i \in good } |->
            CHOOSE e \in { entries[i] : i \in good } : EntryId(e) = id]

\* C10: whenever the change listener is invoked, the three maps hold exactly
\* the entries of the snapshot whose write causes the notification.
C10_ListenerSeesItsSnapshot ==
    \A t \in Threads :
        (th[t].pc = "W_notify" /\ configuration_update_listener) =>
            /\ feature_map = SnapshotMap(th[t].json, "features")
            /\ property_map = SnapshotMap(th[t].json, "properties")
            /\ segment_map = SnapshotMap(th[t].json, "segments")

(***************************************************************************)
(* Reload and lookup claims.                                               *)
(***************************************************************************)
CategoryKeys == {"features", "properties", "segments"}
Cache == <<feature_map, property_map, segment_map>>
\* What a complete reload of a document with all three keys leaves.
WholeCache(snapshot) ==
    <<SnapshotMap(snapshot, "features"), SnapshotMap(snapshot, "properties"),
      SnapshotMap(snapshot, "segments")>>
\* A document with the three keys and well-formed entries only.
WholeSnapshot(snapshot) ==
    /\ DOMAIN snapshot = CategoryKeys
    /\ \A k \in CategoryKeys :
         \A i \in 1..Len(snapshot[k]) : EntryParses(snapshot[k][i])
\* The reader is at one of its reads of the map.
ReaderLooks == th["app"].pc \in {"G_check", "G_retry", "G_get"}

\* C11: a reader running at any moment, a reload being in progress or not,
\* finds the three maps holding together the content of one whole snapshot
\* (or nothing, before the first reload); checked in the runs whose
\* documents all have the three keys and well-formed entries.
C11_ReaderSeesWholeSnapshot ==
    (ReaderLooks /\ WholeSnapshot(remote)) =>
        \/ Cache = <<EmptyMap, EmptyMap, EmptyMap>>
        \/ Cache = WholeCache(remote)
        \/ Cache = WholeCache(SeedFile)

\* The well-formed entries of a category of a document carry the id.
Contains(snapshot, category, id) ==
    /\ category \in DOMAIN snapshot
    /\ \E i \in 1..Len(snapshot[category]) :
         EntryParses(snapshot[category][i]) /\ EntryId(snapshot[category][i]) = id
LookupCategory == IF lookup.kind = "feature" THEN "features" ELSE "properties"
LookupDone == lookup.kind # "none" /\ lookup.returned # "pending"

\* C14: a lookup never leaves the reload path (no request, no listener call)
\* and reloads at most once; a lookup that ran alone returns the cached entry
\* without a reload on a hit, and on a miss reloads once and returns the
\* entry if the reloaded snapshot contains the id, None otherwise.
C14_LazyReloadOnMiss ==
    /\ th["app"].pc \in {"idle", "G_check", "G_retry", "G_get", "L_read", "L_clear", "L_put"}
    /\ lookup.reloads <= 1
    /\ (LookupDone /\ lookup.serial) =>
         IF lookup.cached
         THEN lookup.reloads = 0 /\ lookup.returned = lookup.id
         ELSE /\ lookup.reloads = 1
              /\ lookup.returned =
                   IF Contains(lookup.snapshot, LookupCategory, lookup.id)
                   THEN lookup.id ELSE "None"

\* The reload of th[t].json by __write_to_file is complete and no other
\* thread has reloaded meanwhile.
ReloadedAlone(t) ==
    /\ th[t].pc = "W_notify"
    /\ lookup.kind = "none"
    /\ \A u \in Threads \ {t} : th[u].pc = "idle"

\* C17: after the reload of a snapshot every well-formed entry of it, of
\* every category, before or after a malformed one, is in the cache.
C17_MalformedEntrySkippedAlone ==
    \A t \in Threads :
        ReloadedAlone(t) =>
            \A c \in 1..3 :
                Categories[c] \in DOMAIN th[t].json =>
                    \A i \in 1..Len(th[t].json[Categories[c]]) :
                        LET entry == th[t].json[Categories[c]][i]
                        IN  EntryParses(entry) =>
                                /\ EntryId(entry) \in DOMAIN CacheMap(c)
                                /\ CacheMap(c)[EntryId(entry)] = entry

\* After the reload the map of every category the snapshot has holds exactly
\* the valid entries of that category.
ReloadedExactly ==
    \A t \in Threads :
        ReloadedAlone(t) =>
            \A c \in 1..3 :
                Categories[c] \in DOMAIN th[t].json =>
                    CacheMap(c) = SnapshotMap(th[t].json, Categories[c])
\* A step of a reload assigns only the map of the category it is at, which
\* is a category the snapshot has.
ReloadStepFrame ==
    \A t \in Threads :
        (th[t].pc \in {"L_clear", "L_put"} /\ th'[t] # th[t]) =>
            /\ Categories[th[t].cat] \in DOMAIN th[t].all_config
            /\ \A c \in 1..3 : c # th[t].cat => CacheMap(c)' = CacheMap(c)

\* C18: after a reload each category present in the snapshot holds exactly
\* its valid entries (none if the list is empty), and the reload leaves the
\* map of a category the snapshot omits, like every other category's map
\* while it fills one, unchanged.
C18_CategoryKeys == []ReloadedExactly /\ [][ReloadStepFrame]_vars

(***************************************************************************)
(* Synchronisation claims, continued.                                      *)
(***************************************************************************)
\* The thread is inside load_data.
InLoadData(t) == th[t].pc \notin {"idle", "N_check", "N_set", "N_clear"}

\* C12: of the threads that run __load_data_now at the same time at most
\* one is inside load_data.
C12_OneCycleInFlight == Cardinality({ t \in Loaders : InLoadData(t) }) <= 1

\* The Sockets that were set up and not cancelled.
OpenSubscriptions ==
    stray_sockets + (IF socket \in {"connecting", "open"} THEN 1 ELSE 0)

\* C13: at most one push subscription is open, whatever starts of
\* __start_web_socket run at the same time.
C13_OneSubscription == OpenSubscriptions <= 1

\* C15: once load_data has run with live updates disabled, and while they
\* stay disabled, no push subscription is open or being opened, and the
\* connectivity listener runs no pull.
C15_NoSubscriptionWhenDisabled ==
    cycle_ran_disabled =>
        /\ OpenSubscriptions = 0
        /\ th["net"].pc = "idle"

\* C16: the 2xx answer to a request that was sent while live updates were
\* enabled is written to the persisted snapshot and reloaded even when live
\* updates were disabled before the answer came: none is dropped.
C16_InFlightPullAccepted == ~dropped

\* The cache holds what a reload of the remote snapshot leaves (an empty
\* answer is never written: there is nothing to converge to).
Converged == DOMAIN remote = {} \/ Cache = WholeCache(remote)

\* C19: once the environment has settled, live updates being enabled, the
\* cache eventually equals the remote snapshot (as long as live updates are
\* not disabled).
C19_EventualConvergence ==
    (stable /\ live_config_update_enabled) ~>
        (Converged \/ ~live_config_update_enabled)

\* The listener was told 'online' while recorded offline and its pull has
\* not begun.
NetworkPullDue ==
    /\ th["net"].pc = "F_enter"
    /\ th["net"].trigger = "network"
    /\ th["net"].attempts = 0

\* C20: with live updates enabled the connectivity listener begins one pull
\* for every 'online' notification received while it had recorded offline,
\* and none for an 'offline' notification or an 'online' one received while
\* it had recorded online.
C20_OnePullPerReconnection ==
    reconnections = network_pulls + (IF NetworkPullDue THEN 1 ELSE 0)
\* An offline period ended and the pull this begins is in flight.
C20_Witness ==
    /\ reconnections = 1 /\ network_pulls = 1
    /\ th["net"].pc = "F_request" /\ th["net"].trigger = "network"
    /\ is_network_connected

(***************************************************************************)
(* Reconnection, the retry counter, delayed retries, the loading flag.     *)
(***************************************************************************)
\* A connection error event or a close event of the subscription is delivered.
ConnectionLost == socket' \in {"failed", "closed"} /\ socket' # socket
\* The connection being set up opens.
ConnectionOpens == socket' = "open" /\ socket # "open"
\* The callback's thread begins a pull in this step.
OpenPulls ==
    /\ th["sock"].pc = "idle"
    /\ th'["sock"].pc = "F_enter" /\ th'["sock"].trigger = "open"

ReconnectStep ==
    /\ ConnectionLost => socket_timers' = socket_timers + 1
    /\ ConnectionOpens =>
          /\ on_socket_retry' = FALSE
          /\ failure # "none" => OpenPulls
          /\ failure = "none" => th' = th

\* C21: every error event and every close event of the subscription
\* schedules one delayed reconnect; an open that follows such an event
\* begins one pull and leaves the retry flag clear; an open that follows
\* none begins no pull.
C21_ReconnectResync == [][ReconnectStep]_vars

\* A thread is inside __fetch_from_api.
PullRunning ==
    \E t \in Threads : th[t].pc \in {"F_enter", "F_dec", "F_request", "F_reset"}

\* C22: the retry counter is always within 0..3, and it is 3 whenever no
\* pull is running and the pull that ended last ended with a 2xx answer or
\* by scheduling a delayed retry.
C22_RetryCounterRange ==
    /\ retry_count \in 0..RetryCount
    /\ (~PullRunning /\ last_pull \in {"2xx", "retry"}) => retry_count = RetryCount

\* C23: at most one delayed pull retry is pending.
C23_OneDelayedRetry == fetch_timers <= 1

\* No thread is running __load_data_now.
NoCycleRunning == \A t \in Loaders : th[t].pc = "idle"

\* C24: when no sync cycle is running, however the last one ended, the
\* loading flag is clear, so that the next trigger runs a cycle.
C24_LoadingFlagCleared == NoCycleRunning => ~is_loading

====
